---- MODULE Spec2Model ----
(***************************************************************************)
(* Package scanner of fhir-canonical-manager (src/scanner/package.ts) and  *)
(* the collaborators it calls: the index processor, the file-system probes *)
(* and the cache search.                                                   *)
(*                                                                         *)
(* The cache is a heap of PackageInfo objects (an object's identity is its *)
(* index in the heap), the packages map from a package name to the object  *)
(* registered under it, and the ordered entries sequence; an entry's       *)
(* package field is a reference (an object identity), not a copy.          *)
(***************************************************************************)
EXTENDS Integers, Sequences, FiniteSets, TLC

VARIABLES
  cache, pre, call, scans, streak, failed,      \* the scanner and its history
  options, criteria, results, searchState,      \* the search tool
  tree, preTree, fsCall                         \* the file-system probes

scanVars == <<cache, pre, call, scans, streak, failed>>

searchVars == <<options, criteria, results, searchState>>

fsVars == <<tree, preTree, fsCall>>

vars == <<scanVars, searchVars, fsVars>>

\* ------------------------------------------------------------------ bounds
MaxScans == 3
MaxIndexed == 1
MaxDepth == 2

\* ------------------------------------------------------------ value domains
Undefined == "undefined"

PackagePaths == {"/pkgs/a", "/pkgs/b"}

PackageNames == {"pkg.one", "pkg.two"}

\* The package.json objects a directory may hold.
PackageJsons ==
  { [name |-> "pkg.one", version |-> "1.0.0", canonical |-> "http://one",
     fhirVersions |-> <<"4.0.1">>],
    [name |-> "pkg.two", version |-> "2.0.0", canonical |-> Undefined,
     fhirVersions |-> <<>>] }

NoJson ==
  [name |-> Undefined, version |-> Undefined, canonical |-> Undefined,
   fhirVersions |-> <<>>]

\* The resource descriptors an index manifest may list.
Descriptor1 == [url |-> "A", type |-> "X", kind |-> "resource", version |-> "1"]

Descriptor2 ==
  [url |-> Undefined, type |-> "Y", kind |-> "logical", version |-> Undefined]

SeqsUpTo(S, n) == UNION { [1..k -> S] : k \in 0..n }

\* A file on disk: absent, or present with a text. A text is garbage (no
\* JSON), the JSON literal null, or a JSON object.
PackageJsonFiles ==
  { [exists |-> FALSE, tag |-> "none", value |-> NoJson],
    [exists |-> TRUE, tag |-> "garbage", value |-> NoJson],
    [exists |-> TRUE, tag |-> "null", value |-> NoJson] }
  \cup { [exists |-> TRUE, tag |-> "object", value |-> j] : j \in PackageJsons }

AbsentIndex == [exists |-> FALSE, tag |-> "none", files |-> <<>>]

GarbageIndex == [exists |-> TRUE, tag |-> "garbage", files |-> <<>>]

IndexOf(files) == [exists |-> TRUE, tag |-> "object", files |-> files]

\* The states of .index.json at the package root.
RootIndexFiles ==
  { AbsentIndex, GarbageIndex, IndexOf(<<>>),
    IndexOf(<<Descriptor1, Descriptor2>>) }

\* The states of examples/.index.json.
ExamplesIndexFiles == { AbsentIndex, GarbageIndex, IndexOf(<<Descriptor2>>) }

\* A package directory: package.json, .index.json and examples/.index.json.
PackageDirs ==
  [pj : PackageJsonFiles, root : RootIndexFiles, examples : ExamplesIndexFiles]

EmptyCache ==
  [heap |-> <<>>, packages |-> [n \in PackageNames |-> 0], entries |-> <<>>]

NoDir ==
  [pj |-> [exists |-> FALSE, tag |-> "none", value |-> NoJson],
   root |-> AbsentIndex, examples |-> AbsentIndex]

NoCall == [op |-> "none", path |-> "", dir |-> NoDir, outcome |-> "none"]

\* --------------------------------------------------------- file-system reads
\* fs.readFile: rejects (ENOENT) when the file is absent.
readFile(file) == [threw |-> ~file.exists, text |-> file]

\* JSON.parse: throws a SyntaxError on a text that is no JSON.
JSONParse(text) ==
  [threw |-> text.tag = "garbage", isNull |-> text.tag = "null"]

\* fileExists: never throws; true iff something is at the path.
fileExists(file) == file.exists

\* ------------------------------------------------------------ index processor
RECURSIVE AppendEntries(_, _, _)
AppendEntries(entries, files, pkg) ==
  IF files = <<>> THEN entries
  ELSE AppendEntries(
         Append(entries,
                [url |-> Head(files).url, type |-> Head(files).type,
                 kind |-> Head(files).kind, version |-> Head(files).version,
                 package |-> pkg]),
         Tail(files), pkg)

\* processIndex(basePath, packageJson, cache): a missing or malformed index
\* manifest aborts the processing of that directory only; otherwise one entry
\* per descriptor is appended in file order, each attached to the PackageInfo
\* registered under the manifest's name.
processIndex(indexFile, packageJson, c) ==
  IF readFile(indexFile).threw \/ JSONParse(indexFile).threw
       \/ JSONParse(indexFile).isNull
  THEN [threw |-> FALSE, cache |-> c]
  ELSE [threw |-> FALSE,
        cache |-> [c EXCEPT !.entries =
                     AppendEntries(c.entries, indexFile.files,
                                   c.packages[packageJson.name])]]

\* ------------------------------------------------------------ package scanner
\* The PackageInfo object of lines 21-26.
MakePackageInfo(packagePath, packageJson) ==
  [id |-> [name |-> packageJson.name, version |-> packageJson.version],
   path |-> packagePath,
   canonical |-> packageJson.canonical,
   fhirVersions |-> packageJson.fhirVersions]

\* Variant: the first registration under a name is kept.
RegisterPackage_KeepFirst(c, packageJson, packageInfo) ==
  IF c.packages[packageJson.name] # 0 THEN c
  ELSE [c EXCEPT !.heap = Append(c.heap, packageInfo),
                 !.packages[packageJson.name] = Len(c.heap) + 1]

\* Variant: an object already registered under the name is updated in place.
RegisterPackage_InPlace(c, packageJson, packageInfo) ==
  IF c.packages[packageJson.name] # 0
  THEN [c EXCEPT !.heap[c.packages[packageJson.name]] = packageInfo]
  ELSE [c EXCEPT !.heap = Append(c.heap, packageInfo),
                 !.packages[packageJson.name] = Len(c.heap) + 1]

\* cache.packages[packageJson.name] = packageInfo (line 27): a new object is
\* allocated and the name is bound to it.
RegisterPackage(c, packageJson, packageInfo) ==
  [c EXCEPT !.heap = Append(c.heap, packageInfo),
            !.packages[packageJson.name] = Len(c.heap) + 1]

\* Variant: the error is thrown on to the caller.
CatchBlock_Rethrow(c) == [cache |-> c, outcome |-> "rejected"]

\* Variant: the handler clears the entries collected so far.
CatchBlock_Reset(c) ==
  [cache |-> [c EXCEPT !.entries = <<>>], outcome |-> "resolved"]

\* The catch block of lines 35-37: the error is dropped, the promise resolves
\* with whatever the cache holds at that point.
CatchBlock(c) == [cache |-> c, outcome |-> "resolved"]

\* Variant: the second call is given packagePath instead of examplesPath.
ProcessIndexes_RootTwice(dir, packageJson, c) ==
  LET r1 == processIndex(dir.root, packageJson, c)
  IN  IF fileExists(dir.examples)
      THEN [cache |-> processIndex(dir.root, packageJson, r1.cache).cache,
            outcome |-> "resolved"]
      ELSE [cache |-> r1.cache, outcome |-> "resolved"]

\* Variant: an unusable root index ends the scan before the examples.
ProcessIndexes_StopAfterRoot(dir, packageJson, c) ==
  LET r1 == processIndex(dir.root, packageJson, c)
  IN  IF ~dir.root.exists \/ dir.root.tag # "object" THEN CatchBlock(r1.cache)
      ELSE IF fileExists(dir.examples)
           THEN [cache |-> processIndex(dir.examples, packageJson,
                                        r1.cache).cache,
                 outcome |-> "resolved"]
           ELSE [cache |-> r1.cache, outcome |-> "resolved"]

\* Lines 29-34: the root index, then the examples index when it exists.
ProcessIndexes(dir, packageJson, c) ==
  LET r1 == processIndex(dir.root, packageJson, c)
  IN  IF r1.threw THEN CatchBlock(r1.cache)
      ELSE IF fileExists(dir.examples)
           THEN LET r2 == processIndex(dir.examples, packageJson, r1.cache)
                IN  IF r2.threw THEN CatchBlock(r2.cache)
                    ELSE [cache |-> r2.cache, outcome |-> "resolved"]
           ELSE [cache |-> r1.cache, outcome |-> "resolved"]

\* Variant: a package already registered from the same path in the same
\* version is not scanned again.
scanPackage_SkipKnown(packagePath, dir, c) ==
  IF readFile(dir.pj).threw \/ JSONParse(dir.pj).threw
       \/ JSONParse(dir.pj).isNull
  THEN CatchBlock(c)
  ELSE LET packageJson == dir.pj.value
           packageInfo == MakePackageInfo(packagePath, packageJson)
           known == c.packages[packageJson.name]
       IN  IF known # 0 /\ c.heap[known] = packageInfo
           THEN [cache |-> c, outcome |-> "resolved"]
           ELSE ProcessIndexes(dir, packageJson,
                               RegisterPackage(c, packageJson, packageInfo))

\* Variant: the registration is undone when the root index cannot be used.
scanPackage_Rollback(packagePath, dir, c) ==
  IF readFile(dir.pj).threw \/ JSONParse(dir.pj).threw
       \/ JSONParse(dir.pj).isNull
  THEN CatchBlock(c)
  ELSE IF ~dir.root.exists \/ dir.root.tag # "object" THEN CatchBlock(c)
  ELSE LET packageJson == dir.pj.value
           packageInfo == MakePackageInfo(packagePath, packageJson)
       IN  ProcessIndexes(dir, packageJson,
                          RegisterPackage(c, packageJson, packageInfo))

\* scanPackage(packagePath, cache), with dir the content of packagePath.
scanPackage(packagePath, dir, c) ==
  IF readFile(dir.pj).threw THEN CatchBlock(c)
  ELSE IF JSONParse(dir.pj).threw THEN CatchBlock(c)
  ELSE IF JSONParse(dir.pj).isNull THEN CatchBlock(c)
  ELSE LET packageJson == dir.pj.value
           packageInfo == MakePackageInfo(packagePath, packageJson)
       IN  ProcessIndexes(dir, packageJson,
                          RegisterPackage(c, packageJson, packageInfo))

\* ---------------------------------------------------------------- the search
NoPackage == [name |-> Undefined, version |-> Undefined]

NoCriteria ==
  [type |-> Undefined, kind |-> Undefined, version |-> Undefined,
   package |-> NoPackage]

NoOptions ==
  [type |-> Undefined, kind |-> Undefined, version |-> Undefined,
   package |-> Undefined]

\* The command-line options of the search tool that reach the search.
SearchOptions ==
  [type : {Undefined, "", "X", "Y"},
   kind : {Undefined, "resource", "logical"},
   version : {Undefined, "1", "2"},
   package : {Undefined, "pkg.one", "pkg.two", "pkg.none"}]

\* manager.packages(): the identity (name, version) of every registered
\* package.
managerPackages(c) ==
  { c.heap[c.packages[n]].id : n \in {m \in PackageNames : c.packages[m] # 0} }

\* A string option is used only when it is truthy (neither absent nor "").
Truthy(str) == str # Undefined /\ str # ""

\* Lines 391-409 of the tool: the search parameters built from the options;
\* a package option that names no registered package ends the run.
BuildSearchParams(opts, c) ==
  LET found == { q \in managerPackages(c) : q.name = opts.package }
  IN  [exit |-> Truthy(opts.package) /\ found = {},
       params |->
         [type |-> IF Truthy(opts.type) THEN opts.type ELSE Undefined,
          kind |-> IF Truthy(opts.kind) THEN opts.kind ELSE Undefined,
          version |-> IF Truthy(opts.version) THEN opts.version ELSE Undefined,
          package |-> IF Truthy(opts.package) /\ found # {}
                      THEN CHOOSE q \in found : TRUE ELSE NoPackage]]

\* One entry against the criteria: every supplied criterion must be met.
EntryMatches(c, e, params) ==
  /\ (params.type # Undefined => e.type = params.type)
  /\ (params.kind # Undefined => e.kind = params.kind)
  /\ (params.version # Undefined => e.version = params.version)
  /\ (params.package # NoPackage =>
        c.heap[e.package].id.name = params.package.name)

RECURSIVE SearchLoop(_, _, _, _)
SearchLoop(c, params, i, acc) ==
  IF i > Len(c.entries) THEN acc
  ELSE SearchLoop(c, params, i + 1,
                  IF EntryMatches(c, c.entries[i], params)
                  THEN Append(acc, c.entries[i]) ELSE acc)

RECURSIVE SearchLoop_Dedup(_, _, _, _)
SearchLoop_Dedup(c, params, i, acc) ==
  IF i > Len(c.entries) THEN acc
  ELSE SearchLoop_Dedup(c, params, i + 1,
         IF EntryMatches(c, c.entries[i], params)
              /\ \A j \in 1..Len(acc) : acc[j].url # c.entries[i].url
         THEN Append(acc, c.entries[i]) ELSE acc)

\* Variant: one entry per canonical URL is returned.
searchEntries_Dedup(c, params) == SearchLoop_Dedup(c, params, 1, <<>>)

\* searchEntries(params): the entries that match, in the order of
\* cache.entries.
searchEntries(c, params) == SearchLoop(c, params, 1, <<>>)

\* ------------------------------------------------------- file-system probes
DirNames == {"a", "b"}

\* The paths below the working directory, as sequences of names.
FsPaths == UNION { [1..k -> DirNames] : k \in 1..MaxDepth }

\* path and its ancestors below the working directory.
Prefixes(path) == { SubSeq(path, 1, k) : k \in 1..Len(path) }

Ancestors(path) == Prefixes(path) \ {path}

EmptyTree == [q \in FsPaths |-> "absent"]

NoFsCall == [op |-> "none", path |-> <<>>, outcome |-> "none"]

\* Something can be created at path: nothing is there and its parent is a
\* directory.
Creatable(t, path) ==
  /\ t[path] = "absent"
  /\ \A q \in Ancestors(path) : t[q] = "dir"

\* fs.mkdir(path, {recursive: true}): no error when path is a directory;
\* EEXIST when path is a file, ENOTDIR when an ancestor is a file; otherwise
\* path and its missing ancestors become directories.
mkdirRecursive(t, path) ==
  IF t[path] = "dir" THEN [threw |-> FALSE, tree |-> t]
  ELSE IF t[path] = "file" THEN [threw |-> TRUE, tree |-> t]
  ELSE IF \E q \in Ancestors(path) : t[q] = "file"
       THEN [threw |-> TRUE, tree |-> t]
  ELSE [threw |-> FALSE,
        tree |-> [q \in FsPaths |->
                    IF q \in Prefixes(path) /\ t[q] = "absent"
                    THEN "dir" ELSE t[q]]]

\* Variant: a file in the way is replaced by a directory.
ensureDir_Force(t, path) ==
  [outcome |-> "resolved",
   tree |-> [q \in FsPaths |-> IF q \in Prefixes(path) THEN "dir" ELSE t[q]]]

\* ensureDir(path): the recursive mkdir with every error dropped.
ensureDir(t, path) ==
  [outcome |-> "resolved", tree |-> mkdirRecursive(t, path).tree]

\* ------------------------------------------------- history (not program state)
\* pre is the cache before the last call, call the last call and its outcome,
\* streak the number of consecutive identical calls that end in the last one,
\* failed the number of calls so far whose package.json was missing or
\* unparsable.
ValidManifest(d) == d.pj.exists /\ d.pj.tag = "object"

BadManifest(d) == ~d.pj.exists \/ d.pj.tag = "garbage"

\* ------------------------------------------------------- scanner: properties
None == [id |-> [name |-> Undefined, version |-> Undefined], path |-> "",
         canonical |-> Undefined, fhirVersions |-> <<>>]

\* The packages map by value: each name with the PackageInfo it is bound to.
PackagesValue(c) ==
  [n \in PackageNames |->
     IF c.packages[n] = 0 THEN None ELSE c.heap[c.packages[n]]]

IndexUsable(f) == f.exists /\ f.tag = "object"

\* The number of descriptors an index file contributes.
Count(f) == IF IndexUsable(f) THEN Len(f.files) ELSE 0

\* The entries one index file is to contribute, attached to object pkg.
EntriesOf(f, pkg) ==
  [i \in 1..Count(f) |->
     [url |-> f.files[i].url, type |-> f.files[i].type,
      kind |-> f.files[i].kind, version |-> f.files[i].version,
      package |-> pkg]]

ScannedValid == call.op = "scan" /\ ValidManifest(call.dir)

ScannedName == call.dir.pj.value.name

\* C1: a call of scanPackage resolves, whatever the state of the package
\* directory and of the cache; it never rejects.
C1_NeverRejects == call.op = "scan" => call.outcome = "resolved"

C1_Witness ==
  /\ call.op = "scan"
  /\ call.outcome = "resolved"
  /\ call.dir.pj.exists /\ call.dir.pj.tag = "garbage"
  /\ pre.entries # <<>>

\* C2: a scan whose package.json is missing or unparsable leaves packages and
\* entries as they were; so when every call but one hit a bad package.json,
\* in whichever order, the cache holds the one valid package's PackageInfo
\* and descriptors and nothing else.
C2_BadManifestIsolated ==
  /\ (call.op = "scan" /\ BadManifest(call.dir)) =>
       /\ cache.packages = pre.packages
       /\ cache.entries = pre.entries
       /\ PackagesValue(cache) = PackagesValue(pre)
  /\ (scans >= 1 /\ failed = scans - 1) =>
       /\ Cardinality({n \in PackageNames : cache.packages[n] # 0}) <= 1
       /\ \A i \in 1..Len(cache.entries) :
            \E n \in PackageNames :
              cache.entries[i].package = cache.packages[n]
  /\ (ScannedValid /\ failed = scans - 1) =>
       /\ \A n \in PackageNames :
            (cache.packages[n] # 0) = (n = ScannedName)
       /\ cache.entries =
            EntriesOf(call.dir.root, cache.packages[ScannedName])
              \o EntriesOf(call.dir.examples, cache.packages[ScannedName])

C2_Witness ==
  /\ scans = 2 /\ failed = 1
  /\ call.op = "scan" /\ call.dir.pj.tag = "garbage"
  /\ Len(cache.entries) = 2
  /\ cache.packages["pkg.one"] # 0

\* C3: after a scan whose package.json parses and names (n, v), packages[n]
\* is {id: {n, v}, path: the scanned path, canonical, fhirVersions} of that
\* package.json, whatever was registered under n before and whether or not
\* an index could be processed.
C3_PackageRegistered ==
  ScannedValid =>
    /\ cache.packages[ScannedName] # 0
    /\ PackagesValue(cache)[ScannedName] =
         [id |-> [name |-> call.dir.pj.value.name,
                  version |-> call.dir.pj.value.version],
          path |-> call.path,
          canonical |-> call.dir.pj.value.canonical,
          fhirVersions |-> call.dir.pj.value.fhirVersions]

C3_Witness ==
  /\ ScannedValid
  /\ pre.packages[ScannedName] # 0
  /\ PackagesValue(pre)[ScannedName] # PackagesValue(cache)[ScannedName]
  /\ ~IndexUsable(call.dir.root)

C5_RescanGrowsEntries ==
  (ScannedValid /\ streak >= 2) =>
    /\ PackagesValue(cache) = PackagesValue(pre)
    /\ Len(cache.entries) =
         Len(pre.entries) + Count(call.dir.root) + Count(call.dir.examples)

C5_Witness ==
  /\ ScannedValid /\ streak = 3
  /\ Count(call.dir.root) + Count(call.dir.examples) = 3
  /\ Len(cache.entries) = 9

\* C6: a root index that cannot be processed does not keep a usable examples
\* index from being processed, and an examples index that cannot be
\* processed leaves the entries appended from the root index in place.
C6_IndexFailureIsPerDirectory ==
  /\ (ScannedValid /\ ~IndexUsable(call.dir.root)
        /\ IndexUsable(call.dir.examples)) =>
       cache.entries =
         pre.entries \o EntriesOf(call.dir.examples, cache.packages[ScannedName])
  /\ (ScannedValid /\ IndexUsable(call.dir.root)
        /\ call.dir.examples.exists /\ ~IndexUsable(call.dir.examples)) =>
       cache.entries =
         pre.entries \o EntriesOf(call.dir.root, cache.packages[ScannedName])

C6_Witness ==
  /\ ScannedValid
  /\ call.dir.root.exists /\ call.dir.root.tag = "garbage"
  /\ Len(call.dir.examples.files) = 1
  /\ Len(cache.entries) = Len(pre.entries) + 1
  /\ pre.entries # <<>>

\* C7: the entries present before a call are, after it, an unchanged prefix:
\* same order, same fields, and a package reference that still leads to the
\* same PackageInfo, also when the name has been bound to a new object.
C7_EntriesOnlyGrow ==
  call.op = "scan" =>
    /\ Len(pre.entries) <= Len(cache.entries)
    /\ \A i \in 1..Len(pre.entries) :
         /\ cache.entries[i] = pre.entries[i]
         /\ cache.heap[cache.entries[i].package]
              = pre.heap[pre.entries[i].package]

C7_Witness ==
  /\ ScannedValid
  /\ pre.packages[ScannedName] # 0
  /\ cache.packages[ScannedName] # pre.packages[ScannedName]
  /\ pre.heap[pre.packages[ScannedName]].path # call.path
  /\ \E i \in 1..Len(pre.entries) :
       /\ pre.entries[i].package = pre.packages[ScannedName]
       /\ cache.entries[i].package # cache.packages[ScannedName]
       /\ cache.heap[cache.entries[i].package]
            # cache.heap[cache.packages[ScannedName]]

\* C10: when package.json parses and the root index cannot be processed, the
\* registration is not undone: the name is bound to the new PackageInfo, and
\* the packages map is the one a scan of the same package with an empty
\* index would have left.
C10_NoRollback ==
  (ScannedValid /\ ~IndexUsable(call.dir.root)) =>
    /\ cache.packages[ScannedName] > Len(pre.heap)
    /\ cache.heap[cache.packages[ScannedName]].path = call.path
    /\ cache.heap[cache.packages[ScannedName]].id.version
         = call.dir.pj.value.version
    /\ LET clean == scanPackage(call.path,
                                [call.dir EXCEPT !.root = IndexOf(<<>>),
                                                 !.examples = AbsentIndex],
                                pre)
       IN  /\ PackagesValue(cache) = PackagesValue(clean.cache)
           /\ cache.packages = clean.cache.packages
           /\ call.outcome = clean.outcome

C10_Witness ==
  /\ ScannedValid
  /\ ~call.dir.root.exists
  /\ pre.packages[ScannedName] # 0
  /\ PackagesValue(pre)[ScannedName] # PackagesValue(cache)[ScannedName]
  /\ cache.entries = pre.entries

\* -------------------------------------------------------- search: properties
\* An entry meets every criterion that was supplied.
Satisfies(e) ==
  /\ \A f \in {"type", "kind", "version"} :
       criteria[f] = Undefined \/ e[f] = criteria[f]
  /\ \/ criteria.package = NoPackage
     \/ cache.heap[e.package].id.name = criteria.package.name

\* The positions in cache.entries of the entries that meet the criteria.
MatchingPositions ==
  { i \in 1..Len(cache.entries) : Satisfies(cache.entries[i]) }

\* The j-th matching position, counted in the order of cache.entries.
NthMatch(j) ==
  CHOOSE i \in MatchingPositions :
    Cardinality({k \in MatchingPositions : k <= i}) = j

\* C8: a search returns exactly the entries that meet every supplied
\* criterion, each once per occurrence in cache.entries and in that order;
\* entries sharing a canonical URL are all returned, and criteria that match
\* nothing give the empty sequence.
C8_SearchIsOrderedFilter ==
  searchState = "done" =>
    /\ Len(results) = Cardinality(MatchingPositions)
    /\ \A j \in 1..Len(results) : results[j] = cache.entries[NthMatch(j)]

C8_Witness ==
  /\ searchState = "done"
  /\ criteria.type = "X" /\ criteria.kind = Undefined
  /\ Len(cache.entries) = 3
  /\ ~Satisfies(cache.entries[2])
  /\ Len(results) = 2
  /\ results[1].url = results[2].url
  /\ results[1].package # results[2].package

\* ---------------------------------------------------- ensureDir: properties
EnsureDirCalled == fsCall.op = "ensureDir"

CanCreate == \A q \in Ancestors(fsCall.path) : preTree[q] # "file"

ScanIdle ==
  /\ cache = EmptyCache
  /\ pre = EmptyCache
  /\ call = NoCall
  /\ scans = 0
  /\ streak = 0
  /\ failed = 0

SearchIdle ==
  /\ options = NoOptions
  /\ criteria = NoCriteria
  /\ results = <<>>
  /\ searchState = "idle"

FsIdle ==
  /\ tree = EmptyTree
  /\ preTree = EmptyTree
  /\ fsCall = NoFsCall

\* The cache of a new manager is empty.
Init == ScanIdle /\ SearchIdle /\ FsIdle

\* One call of scanPackage on a directory in any state.
Scan ==
  /\ scans < MaxScans
  /\ \E p \in PackagePaths, d \in PackageDirs :
       LET r == scanPackage(p, d, cache)
       IN  /\ cache' = r.cache
           /\ pre' = cache
           /\ call' = [op |-> "scan", path |-> p, dir |-> d,
                       outcome |-> r.outcome]
           /\ streak' = IF call.op = "scan" /\ call.path = p /\ call.dir = d
                        THEN streak + 1 ELSE 1
           /\ failed' = IF BadManifest(d) THEN failed + 1 ELSE failed
  /\ scans' = scans + 1
  /\ UNCHANGED <<searchVars, fsVars>>

Next == Scan

Spec == Init /\ [][Next]_vars

\* ---- the search, on the cache left by init()
\* The resource descriptors of the searched packages.
SearchDescriptors ==
  { [url |-> "A", type |-> "X", kind |-> "resource", version |-> "1"],
    [url |-> "B", type |-> "Y", kind |-> "resource", version |-> "2"],
    [url |-> "A", type |-> "X", kind |-> "logical", version |-> Undefined] }

SearchIndexFiles ==
  { IndexOf(f) : f \in SeqsUpTo(SearchDescriptors, MaxIndexed) }

PackageDir(packageJson, root, examples) ==
  [pj |-> [exists |-> TRUE, tag |-> "object", value |-> packageJson],
   root |-> root, examples |-> examples]

\* init() has scanned pkg.one, then pkg.one again from another path, then
\* pkg.two, each with some root index.
InitSearch ==
  /\ \E f1 \in SearchIndexFiles, f2 \in SearchIndexFiles,
        f3 \in SearchIndexFiles :
       LET j1 == CHOOSE j \in PackageJsons : j.name = "pkg.one"
           j3 == CHOOSE j \in PackageJsons : j.name = "pkg.two"
           c1 == scanPackage("/pkgs/a", PackageDir(j1, f1, AbsentIndex),
                             EmptyCache).cache
           c2 == scanPackage("/pkgs/b", PackageDir(j1, f2, AbsentIndex),
                             c1).cache
           c3 == scanPackage("/pkgs/a", PackageDir(j3, f3, AbsentIndex),
                             c2).cache
       IN  cache = c3
  /\ pre = EmptyCache
  /\ call = NoCall
  /\ scans = 0
  /\ streak = 0
  /\ failed = 0
  /\ SearchIdle
  /\ FsIdle

\* The tool's search step (lines 390-412); the tool runs it once.
Search ==
  /\ searchState = "idle"
  /\ \E opts \in SearchOptions :
       LET b == BuildSearchParams(opts, cache)
       IN  /\ options' = opts
           /\ criteria' = b.params
           /\ results' = IF b.exit THEN <<>> ELSE searchEntries(cache, b.params)
           /\ searchState' = IF b.exit THEN "exit" ELSE "done"
  /\ UNCHANGED <<scanVars, fsVars>>

NextSearch == Search

SpecSearch == InitSearch /\ [][NextSearch]_vars

\* ---- the file-system probes, on a working directory that starts empty
\* fs.writeFile on a path whose parent is a directory.
WriteFile ==
  /\ \E path \in FsPaths :
       /\ Creatable(tree, path)
       /\ tree' = [tree EXCEPT ![path] = "file"]
       /\ preTree' = tree
       /\ fsCall' = [op |-> "writeFile", path |-> path, outcome |-> "resolved"]
  /\ UNCHANGED <<scanVars, searchVars>>

\* fs.mkdir (not recursive) on a path whose parent is a directory.
Mkdir ==
  /\ \E path \in FsPaths :
       /\ Creatable(tree, path)
       /\ tree' = [tree EXCEPT ![path] = "dir"]
       /\ preTree' = tree
       /\ fsCall' = [op |-> "mkdir", path |-> path, outcome |-> "resolved"]
  /\ UNCHANGED <<scanVars, searchVars>>

\* One call of ensureDir.
EnsureDir ==
  /\ \E path \in FsPaths :
       LET r == ensureDir(tree, path)
       IN  /\ tree' = r.tree
           /\ preTree' = tree
           /\ fsCall' = [op |-> "ensureDir", path |-> path,
                         outcome |-> r.outcome]
  /\ UNCHANGED <<scanVars, searchVars>>

NextFs == WriteFile \/ Mkdir \/ EnsureDir

SpecFs == Init /\ [][NextFs]_vars

====
